---- MODULE Spec2Model ----
(***************************************************************************)
(* Model of the Flask service in src/main.py: the secret resolver          *)
(* (get_secret), the API key validator (validate_api_key), the request     *)
(* handlers and the after_request hook that decorates every response.      *)
(*                                                                         *)
(* Python values are tagged records.  Keys, environment values and secret  *)
(* values are Str("...") over TLA+ strings; JSON text (request bodies,     *)
(* messages) is Text(<<code points>>) so that slicing and substring tests  *)
(* are computed on characters.                                             *)
(***************************************************************************)
EXTENDS Integers, Sequences, FiniteSets, TLC

VARIABLES env,        \* os.environ of the process
          remote,     \* what Secret Manager answers at this moment
          req,        \* the request (or direct call) being handled
          resp,       \* its response (or return value)
          io,         \* remote interactions made while handling req
          lastSecret  \* history: value last returned by a successful fetch

vars == <<env, remote, req, resp, io, lastSecret>>

----------------------------------------------------------------------------
(* Bounds *)

MaxMsgLen == 130

----------------------------------------------------------------------------
(* Python values *)

None == [t |-> "None"]
Str(s) == [t |-> "str", s |-> s]
Text(c) == [t |-> "str", cp |-> c]
Num(n) == [t |-> "int", n |-> n]
Bool(b) == [t |-> "bool", b |-> b]
List(l) == [t |-> "list", l |-> l]
Dict(d) == [t |-> "dict", d |-> d]

\* Python truthiness, as used by `not x` and `a or b`.
Truthy(v) ==
    CASE v.t = "None" -> FALSE
      [] v.t = "str"  -> IF "s" \in DOMAIN v THEN v.s # "" ELSE v.cp # <<>>
      [] v.t = "int"  -> v.n # 0
      [] v.t = "bool" -> v.b
      [] v.t = "list" -> v.l # <<>>
      [] v.t = "dict" -> DOMAIN v.d # {}

PyOr(a, b) == IF Truthy(a) THEN a ELSE b

\* os.environ.get(name) and os.environ.get(name, default)
EnvGet(e, name) == e[name]
EnvGetDefault(e, name, default) == IF e[name] = None THEN default ELSE e[name]

----------------------------------------------------------------------------
(* Character data *)

\* A cut one character short
SliceOffByOne(s, n) == IF Len(s) <= n THEN s ELSE SubSeq(s, 1, n - 1)

Slice(s, n) == IF Len(s) <= n THEN s ELSE SubSeq(s, 1, n)

\* sub occurs in s as a contiguous run (Python `sub in s` on strings)
Contains(s, sub) ==
    \E i \in 0..(Len(s) - Len(sub)) :
        \A j \in 1..Len(sub) : s[i + j] = sub[j]

CpMessage == <<109, 101, 115, 115, 97, 103, 101>>
CpProcessed == <<80, 114, 111, 99, 101, 115, 115, 101, 100, 58, 32>>
CpNone == <<78, 111, 110, 101>>
CpTrue == <<84, 114, 117, 101>>
CpFalse == <<70, 97, 108, 115, 101>>

RECURSIVE Digits(_)
Digits(n) == IF n < 10 THEN <<48 + n>> ELSE Digits(n \div 10) \o <<48 + (n % 10)>>

\* str(v) for the JSON values a `message` field can hold
PyStr(v) ==
    CASE v.t = "None" -> CpNone
      [] v.t = "str"  -> v.cp
      [] v.t = "int"  -> Digits(v.n)
      [] v.t = "bool" -> IF v.b THEN CpTrue ELSE CpFalse

----------------------------------------------------------------------------
(* Library conversions, tabulated over the values the model uses *)

\* hashlib.sha256(s.encode()).hexdigest()
Sha256Hex(s) ==
    CASE s = ""            -> "e3b0c44298fc1c149afbf4c8996fb92427ae41e4649b934ca495991b7852b855"
      [] s = "dev-key-123" -> "0f11c9ecaecabe613512ae472855ae9cb7d9639bc8c3fe85e0357efbf4739cd4"
      [] s = "secret-key"  -> "85dbe15d75ef9308c7ae0f33c7a324cc6f4bf519a2ed2f3027bd33c140a4f9aa"
      [] s = "env-key"     -> "ea2ca068cc76504202f55df63b78b8dfddb54438a206702c2623d1828b2c1356"

BytesEmpty == <<>>
BytesSecretKey == <<115, 101, 99, 114, 101, 116, 45, 107, 101, 121>>
BytesInvalid == <<255, 254>>

\* payload.data.decode("UTF-8"): the text, or UnicodeDecodeError
Utf8Decode(b) ==
    CASE b = BytesEmpty     -> [exc |-> FALSE, value |-> Str("")]
      [] b = BytesSecretKey -> [exc |-> FALSE, value |-> Str("secret-key")]
      [] OTHER              -> [exc |-> TRUE, value |-> None]

----------------------------------------------------------------------------
(* Secret resolver *)

SecretPath(project_id, secret_name) ==
    <<"projects", project_id.s, "secrets", secret_name, "versions", "latest">>

\* Lines 37-38: the project scope, from the argument or the environment
resolve_project(e, project_id) ==
    IF ~Truthy(project_id)
    THEN PyOr(EnvGet(e, "GCP_PROJECT_ID"), EnvGet(e, "GOOGLE_CLOUD_PROJECT"))
    ELSE project_id

\* Line 48: the payload decoded, after the client and the access succeeded
decode_payload(d, calls) == [exc |-> d.exc, value |-> d.value, io |-> calls]

\* Lines 44-50: one client, one access_secret_version call, one decode.
\* r is the state of Secret Manager; the result is a return value or a
\* raised exception, with the remote interactions made.
access_secret(r, calls) ==
    IF ~r.client
    THEN [exc |-> TRUE, value |-> None, io |-> <<calls[1]>>]
    ELSE IF r.access # "ok"
    THEN [exc |-> TRUE, value |-> None, io |-> calls]
    ELSE decode_payload(Utf8Decode(r.payload), calls)

\* Lines 40-50, once the project scope is known
fetch_secret(r, secret_name, pid) ==
    IF ~Truthy(pid)
    THEN [exc |-> FALSE, value |-> None, io |-> <<>>]
    ELSE access_secret(r, << <<"client">>,
                             <<"access", SecretPath(pid, secret_name)>> >>)

\* The body of get_secret's try block
get_secret_try(e, r, secret_name, project_id) ==
    fetch_secret(r, secret_name, resolve_project(e, project_id))

\* Lines 52-54: any exception of the try block becomes None
get_secret_except(t) ==
    IF t.exc THEN [exc |-> FALSE, value |-> None, io |-> t.io] ELSE t

\* get_secret without its except clause: the exception reaches the caller
get_secret_propagate(e, r, secret_name, project_id) ==
    get_secret_try(e, r, secret_name, project_id)

\* get_secret answering a failure with the value it fetched last
get_secret_stale(t) ==
    IF t.exc THEN [exc |-> FALSE, value |-> lastSecret, io |-> t.io] ELSE t

get_secret_stale_on_failure(e, r, secret_name, project_id) ==
    get_secret_stale(get_secret_try(e, r, secret_name, project_id))

\* get_secret trying the remote call a second time after a failure
get_secret_again(t) ==
    IF t.exc THEN [exc |-> FALSE, value |-> None, io |-> t.io \o t.io] ELSE t

get_secret_retry(e, r, secret_name, project_id) ==
    get_secret_again(get_secret_try(e, r, secret_name, project_id))

\* get_secret keeping the fetched value in a module-level cache
get_secret_cached(e, r, secret_name, project_id) ==
    IF lastSecret # None
    THEN [exc |-> FALSE, value |-> lastSecret, io |-> <<>>]
    ELSE get_secret_except(get_secret_try(e, r, secret_name, project_id))

get_secret(e, r, secret_name, project_id) ==
    get_secret_except(get_secret_try(e, r, secret_name, project_id))

----------------------------------------------------------------------------
(* API key validator *)

DevKey == Str("dev-key-123")

\* Lines 73-74: both keys hashed, the digests compared; provided_key.encode()
\* raises for a key that is not a string
compare_keys(provided_key, stored_key, io_) ==
    IF provided_key.t # "str"
    THEN [exc |-> TRUE, value |-> FALSE, io |-> io_]
    ELSE [exc |-> FALSE, io |-> io_,
          value |-> Sha256Hex(provided_key.s) = Sha256Hex(stored_key.s)]

\* Lines 68-74, with g the outcome of get_secret('api-key')
check_key(e, g, provided_key) ==
    IF g.exc
    THEN [exc |-> TRUE, value |-> FALSE, io |-> g.io]
    ELSE IF ~Truthy(g.value)
    THEN compare_keys(provided_key, EnvGetDefault(e, "API_KEY", DevKey), g.io)
    ELSE compare_keys(provided_key, g.value, g.io)

\* check_key with the API_KEY fallback left out
check_key_dev_only(e, g, provided_key) ==
    IF g.exc
    THEN [exc |-> TRUE, value |-> FALSE, io |-> g.io]
    ELSE IF ~Truthy(g.value)
    THEN compare_keys(provided_key, Str("dev-key-123"), g.io)
    ELSE compare_keys(provided_key, g.value, g.io)

validate_api_key_try_dev_only(e, r, provided_key) ==
    check_key_dev_only(e, get_secret(e, r, "api-key", None), provided_key)

\* The body of validate_api_key's try block
validate_api_key_try(e, r, provided_key) ==
    check_key(e, get_secret(e, r, "api-key", None), provided_key)

\* Lines 75-77: any exception of the try block becomes False
validate_api_key_except(t) ==
    IF t.exc THEN [exc |-> FALSE, value |-> FALSE, io |-> t.io] ELSE t

validate_api_key(e, r, provided_key) ==
    validate_api_key_except(validate_api_key_try(e, r, provided_key))

----------------------------------------------------------------------------
(* Responses *)

TruncLimit == 100

\* jsonify(payload), status
Json(payload, status) ==
    [status |-> status, json |-> payload,
     headers |-> ("Content-Type" :> "application/json")]

SecurityHeaders ==
    ("X-Content-Type-Options" :> "nosniff") @@
    ("X-Frame-Options" :> "DENY") @@
    ("X-XSS-Protection" :> "1; mode=block") @@
    ("Strict-Transport-Security" :> "max-age=31536000; includeSubDomains") @@
    ("Content-Security-Policy" :> "default-src 'self'")

\* The hook applied to successful responses only
after_request_skip_errors(response) ==
    IF response.status >= 400
    THEN response
    ELSE [response EXCEPT !.headers = SecurityHeaders @@ response.headers]

after_request(response) ==
    [response EXCEPT !.headers = SecurityHeaders @@ response.headers]

----------------------------------------------------------------------------
(* Request bodies and request.get_json() *)

Malformed == [kind |-> "malformed"]
NoBody == [kind |-> "no_body"]
JsonBody(v) == [kind |-> "json", value |-> v]

\* request.get_json(): the parsed value, None, or a raised HTTP error.  A body
\* that is not JSON text raises BadRequest; a request with no JSON content
\* type yields None or raises UnsupportedMediaType, depending on the Flask
\* release the service is deployed with.
GetJson(b) ==
    CASE b.kind = "no_body"    -> {[exc |-> FALSE, value |-> None],
                                  [exc |-> TRUE, value |-> None]}
      [] b.kind = "malformed" -> {[exc |-> TRUE, value |-> None]}
      [] b.kind = "json"      -> {[exc |-> FALSE, value |-> b.value]}

\* `'message' in data` raises TypeError when data is not a container
InRaises(data) == data.t \in {"int", "bool"}

\* `'message' in data` for str (substring), list (element) and dict (key)
MessageIn(data) ==
    CASE data.t = "str"  -> Contains(data.cp, CpMessage)
      [] data.t = "list" -> \E i \in 1..Len(data.l) : data.l[i] = Text(CpMessage)
      [] data.t = "dict" -> "message" \in DOMAIN data.d

----------------------------------------------------------------------------
(* POST /api/secure *)

\* Lines 122-135: the request data is read, checked and echoed.  j is what
\* request.get_json() produces for this request, now is int(time.time()).
process_request_data(j, now) ==
    IF j.exc
    THEN [exc |-> TRUE, response |-> None]
    ELSE IF ~Truthy(j.value)
    THEN [exc |-> FALSE, response |-> Json([error |-> "Invalid request data"], 400)]
    ELSE IF InRaises(j.value)
    THEN [exc |-> TRUE, response |-> None]
    ELSE IF ~MessageIn(j.value)
    THEN [exc |-> FALSE, response |-> Json([error |-> "Invalid request data"], 400)]
    ELSE IF j.value.t # "dict"
    THEN [exc |-> TRUE, response |-> None]
    ELSE LET message == Slice(PyStr(j.value.d.message), TruncLimit)
         IN  [exc |-> FALSE,
              response |-> Json([status |-> "success",
                                 processed_message |-> CpProcessed \o message,
                                 timestamp |-> now], 200)]

\* Lines 117-135, with v the verdict of validate_api_key and d the outcome
\* of processing the request data (read only when the key is valid)
authorize(v, d) ==
    IF v.exc
    THEN [exc |-> TRUE, io |-> v.io, response |-> None]
    ELSE IF ~v.value
    THEN [exc |-> FALSE, io |-> v.io,
          response |-> Json([error |-> "Invalid API key"], 403)]
    ELSE [exc |-> d.exc, io |-> v.io, response |-> d.response]

\* The request data read and checked before the key is validated
authorize_after_data(v, d) ==
    IF d.exc
    THEN [exc |-> TRUE, io |-> <<>>, response |-> None]
    ELSE IF d.response.status = 400
    THEN [exc |-> FALSE, io |-> <<>>, response |-> d.response]
    ELSE authorize(v, d)

secure_endpoint_try_parse_before_auth(e, r, api_key, j, now) ==
    IF ~Truthy(api_key)
    THEN [exc |-> FALSE, io |-> <<>>,
          response |-> Json([error |-> "API key required"], 401)]
    ELSE authorize_after_data(validate_api_key(e, r, api_key),
                              process_request_data(j, now))

\* secure_endpoint_try without the missing-header check of lines 113-115
secure_endpoint_try_no_header_check(e, r, api_key, j, now) ==
    authorize(validate_api_key(e, r, api_key), process_request_data(j, now))

\* The body of secure_endpoint's try block
secure_endpoint_try(e, r, api_key, j, now) ==
    IF ~Truthy(api_key)
    THEN [exc |-> FALSE, io |-> <<>>,
          response |-> Json([error |-> "API key required"], 401)]
    ELSE authorize(validate_api_key(e, r, api_key), process_request_data(j, now))

\* Lines 137-139: any exception of the try block becomes a 500 response
secure_endpoint_except(t) ==
    IF t.exc
    THEN [io |-> t.io, response |-> Json([error |-> "Internal server error"], 500)]
    ELSE [io |-> t.io, response |-> t.response]

secure_endpoint(e, r, api_key, j, now) ==
    secure_endpoint_except(secure_endpoint_try(e, r, api_key, j, now))

----------------------------------------------------------------------------
(* The other routes *)

Version == "2.0.0"

home(e) ==
    Json([message |-> "Hello from Secure Cloud Run CI/CD pipeline!",
          version |-> Version,
          environment |-> EnvGetDefault(e, "ENVIRONMENT", Str("development")).s,
          security_features |-> <<"Secret Manager integration", "Security headers",
                                  "Input validation", "Structured logging">>], 200)

health_check(now) ==
    Json([status |-> "healthy", timestamp |-> now, version |-> Version], 200)

\* get_config adding the debug object in the development environment only
get_config_debug_in_development(e) ==
    LET config == [environment |-> EnvGetDefault(e, "ENVIRONMENT", Str("development")).s,
                   version |-> Version,
                   features |-> [secret_manager |-> TRUE,
                                 security_scanning |-> TRUE,
                                 structured_logging |-> TRUE],
                   health_check_path |-> "/health"]
        debug == [python_version |-> EnvGetDefault(e, "PYTHON_VERSION", Str("unknown")).s,
                  container_id |-> EnvGetDefault(e, "HOSTNAME", Str("unknown")).s]
    IN  IF config.environment = "development"
        THEN Json(config @@ [debug |-> debug], 200)
        ELSE Json(config, 200)

get_config(e) ==
    LET config == [environment |-> EnvGetDefault(e, "ENVIRONMENT", Str("development")).s,
                   version |-> Version,
                   features |-> [secret_manager |-> TRUE,
                                 security_scanning |-> TRUE,
                                 structured_logging |-> TRUE],
                   health_check_path |-> "/health"]
        debug == [python_version |-> EnvGetDefault(e, "PYTHON_VERSION", Str("unknown")).s,
                  container_id |-> EnvGetDefault(e, "HOSTNAME", Str("unknown")).s]
    IN  IF config.environment # "production"
        THEN Json(config @@ [debug |-> debug], 200)
        ELSE Json(config, 200)

not_found == Json([error |-> "Endpoint not found"], 404)

----------------------------------------------------------------------------
(* Inputs *)

EnvNames == {"GCP_PROJECT_ID", "GOOGLE_CLOUD_PROJECT", "API_KEY",
             "ENVIRONMENT", "PYTHON_VERSION", "HOSTNAME"}

MkEnv(gcp, gcloud, key, environment) ==
    ("GCP_PROJECT_ID" :> gcp) @@ ("GOOGLE_CLOUD_PROJECT" :> gcloud) @@
    ("API_KEY" :> key) @@ ("ENVIRONMENT" :> environment) @@
    ("PYTHON_VERSION" :> None) @@ ("HOSTNAME" :> None)

\* Environments of the deployed service
Envs ==
    { MkEnv(gcp, gcloud, key, environment) :
        gcp \in {None, Str(""), Str("proj-1")},
        gcloud \in {None, Str("proj-2")},
        key \in {None, Str(""), Str("env-key")},
        environment \in {None, Str("production"), Str("Production"), Str("staging")} }

\* Environments for direct calls of the resolver and the validator
FnEnvs ==
    { MkEnv(gcp, gcloud, key, None) :
        gcp \in {None, Str(""), Str("proj-1")},
        gcloud \in {None, Str(""), Str("proj-2")},
        key \in {None, Str(""), Str("env-key")} }

\* States of Secret Manager as seen by one access: whether a client can be
\* built, how access_secret_version ends, and the payload bytes it returns.
Remotes ==
    { [client |-> FALSE, access |-> "ok", payload |-> BytesSecretKey],
      [client |-> TRUE, access |-> "unavailable", payload |-> BytesSecretKey],
      [client |-> TRUE, access |-> "permission_denied", payload |-> BytesSecretKey],
      [client |-> TRUE, access |-> "not_found", payload |-> BytesEmpty],
      [client |-> TRUE, access |-> "ok", payload |-> BytesInvalid],
      [client |-> TRUE, access |-> "ok", payload |-> BytesEmpty],
      [client |-> TRUE, access |-> "ok", payload |-> BytesSecretKey] }

Keys == {Str(""), Str("dev-key-123"), Str("secret-key"), Str("env-key")}

\* The X-API-Key header: absent (None) or a string
Headers == {None} \cup Keys

\* "xxx...xy": the last character differs, so a cut is visible
MsgOfLen(n) == [i \in 1..n |-> IF i = n THEN 121 ELSE 120]
MsgLens == {0, 1, TruncLimit - 1, TruncLimit, TruncLimit + 1, MaxMsgLen}

Messages == {Text(MsgOfLen(n)) : n \in MsgLens} \cup {None, Num(42)}

Bodies ==
    {NoBody, Malformed} \cup
    {JsonBody(v) : v \in {None, Num(5), Bool(TRUE),
                          Text(<<104, 105>>), Text(<<97, 32>> \o CpMessage),
                          List(<<>>), List(<<Text(CpMessage)>>),
                          Dict(<<>>), Dict([other |-> Num(1)])}} \cup
    {JsonBody(Dict([message |-> m])) : m \in Messages}

Times == {1700000000, 1700000001}

Idle == [route |-> "idle"]

----------------------------------------------------------------------------
(* The service *)

Init ==
    /\ env \in Envs
    /\ remote \in Remotes
    /\ req = Idle
    /\ resp = Idle
    /\ io = <<>>
    /\ lastSecret = None

\* Secret Manager changes between requests: a new version is stored, access
\* is revoked, the service becomes unreachable, ...
SetStore ==
    /\ req = Idle
    /\ remote' \in Remotes \ {remote}
    /\ UNCHANGED <<env, req, resp, io, lastSecret>>

\* The secret the request fetched, if it fetched one
Fetched(h) ==
    IF Truthy(h) THEN get_secret(env, remote, "api-key", None).value ELSE None

Remember(fetched) == IF fetched # None THEN fetched ELSE lastSecret

Respond(h, b, out) ==
    /\ req' = [route |-> "POST /api/secure", api_key |-> h, body |-> b]
    /\ resp' = after_request(out.response)
    /\ io' = out.io
    /\ lastSecret' = Remember(Fetched(h))
    /\ UNCHANGED <<env, remote>>

PostSecure ==
    /\ req = Idle
    /\ \E h \in Headers, b \in Bodies, now \in Times :
         \E j \in GetJson(b) :
           Respond(h, b, secure_endpoint(env, remote, h, j, now))

GetHome ==
    /\ req = Idle
    /\ req' = [route |-> "GET /"]
    /\ resp' = after_request(home(env))
    /\ io' = <<>>
    /\ UNCHANGED <<env, remote, lastSecret>>

GetHealth ==
    /\ req = Idle
    /\ \E now \in Times :
        /\ req' = [route |-> "GET /health"]
        /\ resp' = after_request(health_check(now))
        /\ io' = <<>>
        /\ UNCHANGED <<env, remote, lastSecret>>

GetConfig ==
    /\ req = Idle
    /\ req' = [route |-> "GET /api/config"]
    /\ resp' = after_request(get_config(env))
    /\ io' = <<>>
    /\ UNCHANGED <<env, remote, lastSecret>>

GetUnknown ==
    /\ req = Idle
    /\ req' = [route |-> "GET /nonexistent"]
    /\ resp' = after_request(not_found)
    /\ io' = <<>>
    /\ UNCHANGED <<env, remote, lastSecret>>

\* The response has been sent: the request and everything created for it
\* are discarded, nothing of it is kept for the next request.
Finish ==
    /\ req # Idle
    /\ req' = Idle
    /\ resp' = Idle
    /\ io' = <<>>
    /\ UNCHANGED <<env, remote, lastSecret>>

\* Direct calls, as the unit tests make them
CallGetSecret ==
    /\ req = Idle
    /\ \E secret_name \in {"api-key", "test-secret"},
          project_id \in {None, Str(""), Str("proj-3")} :
        LET g == get_secret(env, remote, secret_name, project_id)
        IN  /\ req' = [route |-> "get_secret", secret_name |-> secret_name,
                       project_id |-> project_id]
            /\ resp' = [exc |-> g.exc, value |-> g.value]
            /\ io' = g.io
            /\ UNCHANGED <<env, remote, lastSecret>>

CallValidateApiKey ==
    /\ req = Idle
    /\ \E k \in Headers :
        LET v == validate_api_key(env, remote, k)
        IN  /\ req' = [route |-> "validate_api_key", provided_key |-> k]
            /\ resp' = [exc |-> v.exc, verdict |-> v.value]
            /\ io' = v.io
            /\ UNCHANGED <<env, remote, lastSecret>>

Next ==
    \/ SetStore
    \/ PostSecure
    \/ GetHome
    \/ GetHealth
    \/ GetConfig
    \/ GetUnknown
    \/ Finish

Spec == Init /\ [][Next]_vars

InitFn ==
    /\ env \in FnEnvs
    /\ remote \in Remotes
    /\ req = Idle
    /\ resp = Idle
    /\ io = <<>>
    /\ lastSecret = None

NextFn == CallGetSecret \/ CallValidateApiKey \/ Finish

SpecFn == InitFn /\ [][NextFn]_vars

----------------------------------------------------------------------------
(* Vocabulary of the properties, stated on the environment and the store   *)
(* rather than on the handlers' code                                       *)

IsSecure == req.route = "POST /api/secure"

\* A project scope can be derived from the environment
ScopeDerivable(e) ==
    \/ e["GCP_PROJECT_ID"] \notin {None, Str("")}
    \/ e["GOOGLE_CLOUD_PROJECT"] \notin {None, Str("")}

\* A remote attempt against r fails: no client, failed access, bad payload
RemoteFails(r) ==
    \/ ~r.client
    \/ r.access # "ok"
    \/ r.payload \notin {BytesEmpty, BytesSecretKey}

\* The secret text held by r when it can be read, otherwise None
StoredSecret(r) ==
    IF RemoteFails(r) THEN None
    ELSE IF r.payload = BytesEmpty THEN Str("") ELSE Str("secret-key")

\* What the resolver yields for 'api-key' in the current state
ResolvedSecret == IF ScopeDerivable(env) THEN StoredSecret(remote) ELSE None

FallbackKey == IF env["API_KEY"] # None THEN env["API_KEY"] ELSE Str("dev-key-123")

\* The expected key as the specification words it: the resolver's value
\* unless it is absent
ExpectedKeyIfNotAbsent == IF ResolvedSecret # None THEN ResolvedSecret ELSE FallbackKey

\* The expected key the service compares against: the resolver's value
\* unless it is absent or empty
EffectiveKey ==
    IF ResolvedSecret \notin {None, Str("")} THEN ResolvedSecret ELSE FallbackKey

ErrorBody(msg) == [error |-> msg]

HasMessage(b) ==
    /\ b.kind = "json"
    /\ b.value.t = "dict"
    /\ "message" \in DOMAIN b.value.d

AccessCount(trace) == Cardinality({i \in 1..Len(trace) : trace[i][1] = "access"})

----------------------------------------------------------------------------
(* C1: POST /api/secure without an X-API-Key header is answered 401        *)
(* {"error": "API key required"}, whatever the body, the secret store and  *)
(* the environment are.                                                    *)
C1_NoKeyIs401 ==
    (IsSecure /\ req.api_key = None) =>
        /\ resp.status = 401
        /\ resp.json = ErrorBody("API key required")

C1_Witness ==
    /\ IsSecure
    /\ req.api_key = None
    /\ req.body = Malformed
    /\ ~RemoteFails(remote)
    /\ resp.status = 401

----------------------------------------------------------------------------
(* C2 as stated: POST /api/secure with an X-API-Key header that is present *)
(* but differs from the expected key is answered 403                       *)
(* {"error": "Invalid API key"}, for every header value, body, store state *)
(* and environment.                                                        *)
C2_AnyWrongKeyIs403 ==
    (IsSecure /\ req.api_key # None /\ req.api_key # ExpectedKeyIfNotAbsent) =>
        /\ resp.status = 403
        /\ resp.json = ErrorBody("Invalid API key")

(* C2 amended: a non-empty X-API-Key header that differs from the key the  *)
(* service compares against (the resolver's value when present and         *)
(* non-empty, otherwise API_KEY, otherwise the development default) is     *)
(* answered 403 {"error": "Invalid API key"}; an empty header value is     *)
(* answered 401 like a missing header.                                     *)
C2_WrongKeyIs403 ==
    /\ (IsSecure /\ Truthy(req.api_key) /\ req.api_key # EffectiveKey) =>
          /\ resp.status = 403
          /\ resp.json = ErrorBody("Invalid API key")
    /\ (IsSecure /\ req.api_key = Str("")) =>
          /\ resp.status = 401
          /\ resp.json = ErrorBody("API key required")

C2_Witness ==
    /\ IsSecure
    /\ req.api_key = Str("dev-key-123")
    /\ EffectiveKey = Str("secret-key")
    /\ HasMessage(req.body)
    /\ resp.status = 403

----------------------------------------------------------------------------
(* C3: POST /api/secure with a valid key is answered 400                   *)
(* {"error": "Invalid request data"} whenever the body is missing, is not  *)
(* valid JSON, or is JSON without a `message` field (JSON values that are  *)
(* not objects included); never 200 or 500.                                *)
C3_BadBodyIs400 ==
    (IsSecure /\ Truthy(req.api_key) /\ req.api_key = EffectiveKey
              /\ ~HasMessage(req.body)) =>
        /\ resp.status = 400
        /\ resp.json = ErrorBody("Invalid request data")

----------------------------------------------------------------------------
(* C4 as stated: validate_api_key(k) is true exactly when k equals the     *)
(* expected key, the resolver's value for 'api-key' if it is not absent,   *)
(* otherwise API_KEY if set, otherwise 'dev-key-123'.                      *)
C4_ValidIffExpectedIfNotAbsent ==
    (req.route = "validate_api_key") =>
        (resp.verdict <=> req.provided_key = ExpectedKeyIfNotAbsent)

(* C4 amended: validate_api_key(k) is true exactly when k equals the       *)
(* resolver's value for 'api-key' if that is neither absent nor empty,     *)
(* otherwise API_KEY if set, otherwise 'dev-key-123'; every non-empty k    *)
(* different from a non-empty such key is rejected.                        *)
C4_ValidIffEffective ==
    (req.route = "validate_api_key") =>
        /\ ~resp.exc
        /\ resp.verdict <=> req.provided_key = EffectiveKey
        /\ (Truthy(req.provided_key) /\ Truthy(EffectiveKey)
              /\ req.provided_key # EffectiveKey) => ~resp.verdict

C4_Witness ==
    /\ req.route = "validate_api_key"
    /\ ResolvedSecret = Str("")
    /\ req.provided_key = Str("env-key")
    /\ FallbackKey = Str("env-key")
    /\ resp.verdict

----------------------------------------------------------------------------
(* C5: when the remote call of the secret resolver raises during key       *)
(* validation, validate_api_key does not propagate the error and its       *)
(* verdict is the comparison of the supplied key with API_KEY, or with     *)
(* 'dev-key-123' when API_KEY is unset.                                    *)
C5_FailureFallsBack ==
    (req.route = "validate_api_key" /\ ScopeDerivable(env) /\ RemoteFails(remote)) =>
        /\ ~resp.exc
        /\ resp.verdict <=> req.provided_key = FallbackKey

C5_Witness ==
    /\ req.route = "validate_api_key"
    /\ ScopeDerivable(env)
    /\ remote.access = "permission_denied"
    /\ req.provided_key = Str("dev-key-123")
    /\ resp.verdict

----------------------------------------------------------------------------
(* C6 as stated: in every POST /api/secure during which the remote secret  *)
(* call fails the response is not 200, for every supplied key.             *)
C6_FailureDenies ==
    (IsSecure /\ Truthy(req.api_key) /\ ScopeDerivable(env) /\ RemoteFails(remote)) =>
        resp.status # 200

(* C6 amended: in every POST /api/secure during which the remote secret    *)
(* call fails, the response is 200 only if the supplied key equals the     *)
(* fallback key (API_KEY, or 'dev-key-123' when API_KEY is unset); every   *)
(* other supplied key is answered 403.                                     *)
C6_FailureFallsBackToEnvKey ==
    (IsSecure /\ Truthy(req.api_key) /\ ScopeDerivable(env) /\ RemoteFails(remote)) =>
        /\ resp.status = 200 => req.api_key = FallbackKey
        /\ req.api_key # FallbackKey => resp.status = 403

C6_Witness ==
    /\ IsSecure
    /\ ScopeDerivable(env)
    /\ remote.access = "unavailable"
    /\ req.api_key = Str("secret-key")
    /\ lastSecret = Str("secret-key")
    /\ resp.status = 403

----------------------------------------------------------------------------
(* C7: get_secret never raises and returns the decoded secret or None: any *)
(* failure (client construction, network, permission, not-found, decode)   *)
(* yields None after at most one remote attempt, and without a project     *)
(* scope, given or derivable from the environment, it returns None without *)
(* any remote interaction.                                                 *)
C7_GetSecretTotal ==
    (req.route = "get_secret") =>
        LET scoped == Truthy(req.project_id) \/ ScopeDerivable(env)
        IN  /\ ~resp.exc
            /\ resp.value = IF scoped THEN StoredSecret(remote) ELSE None
            /\ (scoped /\ RemoteFails(remote)) => resp.value = None
            /\ AccessCount(io) <= 1
            /\ ~scoped => (resp.value = None /\ io = <<>>)

C7_Witness ==
    /\ req.route = "get_secret"
    /\ ScopeDerivable(env)
    /\ remote.access = "not_found"
    /\ AccessCount(io) = 1
    /\ resp.value = None

----------------------------------------------------------------------------
(* C8: POST /api/secure with a valid key and a body holding a `message`    *)
(* string is answered 200 with status "success" and processed_message      *)
(* "Processed: " followed by the first 100 characters of the message: 100  *)
(* characters exactly for a longer message, the message unchanged          *)
(* otherwise.                                                              *)
FirstChars(m, n) == [i \in 1..(IF Len(m) < n THEN Len(m) ELSE n) |-> m[i]]

C8_EchoTruncated ==
    (IsSecure /\ Truthy(req.api_key) /\ req.api_key = EffectiveKey
              /\ HasMessage(req.body) /\ req.body.value.d.message.t = "str") =>
        LET m == req.body.value.d.message.cp
            echoed == SubSeq(resp.json.processed_message, Len(CpProcessed) + 1,
                             Len(resp.json.processed_message))
        IN  /\ resp.status = 200
            /\ resp.json.status = "success"
            /\ resp.json.processed_message = CpProcessed \o FirstChars(m, 100)
            /\ Len(m) > 100 => Len(echoed) = 100
            /\ Len(m) <= 100 => echoed = m

C8_Witness ==
    /\ IsSecure
    /\ HasMessage(req.body)
    /\ req.body.value.d.message.t = "str"
    /\ Len(req.body.value.d.message.cp) = MaxMsgLen
    /\ resp.status = 200
    /\ Len(resp.json.processed_message) = Len(CpProcessed) + 100

----------------------------------------------------------------------------
(* C9: every response, for every route and every outcome, carries the five *)
(* security headers with their fixed values.                               *)
C9_SecurityHeaders ==
    (req.route \in {"POST /api/secure", "GET /", "GET /health",
                    "GET /api/config", "GET /nonexistent"}) =>
        /\ {"X-Content-Type-Options", "X-Frame-Options", "X-XSS-Protection",
            "Strict-Transport-Security", "Content-Security-Policy"}
              \subseteq DOMAIN resp.headers
        /\ resp.headers["X-Content-Type-Options"] = "nosniff"
        /\ resp.headers["X-Frame-Options"] = "DENY"
        /\ resp.headers["X-XSS-Protection"] = "1; mode=block"
        /\ resp.headers["Strict-Transport-Security"] = "max-age=31536000; includeSubDomains"
        /\ resp.headers["Content-Security-Policy"] = "default-src 'self'"

C9_Witness ==
    /\ IsSecure
    /\ resp.status = 500
    /\ resp.headers["Content-Security-Policy"] = "default-src 'self'"

----------------------------------------------------------------------------
(* C10: secret values are not cached between requests: every POST          *)
(* /api/secure that carries a key re-resolves the expected key, so its     *)
(* verdict is decided by the secret store and the environment as they are  *)
(* during that request, never by a value an earlier request obtained.      *)
C10_NoCaching ==
    (IsSecure /\ Truthy(req.api_key)) =>
        /\ resp.status # 403 <=> req.api_key = EffectiveKey
        /\ ScopeDerivable(env) =>
              /\ io # <<>>
              /\ remote.client => AccessCount(io) = 1

C10_Witness ==
    /\ IsSecure
    /\ lastSecret = Str("secret-key")
    /\ StoredSecret(remote) # lastSecret
    /\ req.api_key = lastSecret
    /\ resp.status = 403
    /\ AccessCount(io) = 1


----------------------------------------------------------------------------
(* C11: GET /api/config is answered 200 with a `debug` key in its JSON     *)
(* body if and only if the ENVIRONMENT value ('development' when unset)    *)
(* differs from 'production'; the environment, version, features and       *)
(* health_check_path keys are present in both cases.                       *)
EnvironmentName ==
    IF env["ENVIRONMENT"] = None THEN "development" ELSE env["ENVIRONMENT"].s

C11_DebugIffNotProduction ==
    (req.route = "GET /api/config") =>
        /\ resp.status = 200
        /\ "debug" \in DOMAIN resp.json <=> EnvironmentName # "production"
        /\ {"environment", "version", "features", "health_check_path"}
              \subseteq DOMAIN resp.json
        /\ resp.json.environment = EnvironmentName

C11_Witness ==
    /\ req.route = "GET /api/config"
    /\ env["ENVIRONMENT"] = Str("production")
    /\ "debug" \notin DOMAIN resp.json
    /\ "features" \in DOMAIN resp.json

====
